---- MODULE Spec2Model ----
(***************************************************************************)
(* A model of genmap: the palette-table loader and colormap registration  *)
(* of colormaps.py and the scale-bar geometry of GenMap.add_scalebar      *)
(* (core.py).                                                              *)
(*                                                                         *)
(* Text is modelled at the character level: a line is a sequence of        *)
(* one-character strings, a file is a sequence of lines.  Numbers are      *)
(* exact rationals <<n, d>> with d > 0 in lowest terms; <<0, 0>> stands    *)
(* for the IEEE NaN that numpy produces for 0.0/0.0 and <<1, 0>>, <<-1, 0>> *)
(* for the infinities.  The palette tokens used here are decimal integers, *)
(* for which the float arithmetic of the loader is the correctly rounded   *)
(* value of the rational computed here.  Zero has no sign here: 0.0 and    *)
(* -0.0, which compare equal, are both <<0, 1>>.  A line is kept without   *)
(* the "\n" that readlines() leaves at its end, which no test of the       *)
(* loader sees.                                                            *)
(***************************************************************************)
EXTENDS Integers, Sequences, FiniteSets, TLC

VARIABLES
    in_lines,    \* the palette table handed to _load_cpt, line by line (structured)
    path_file,   \* the file at `path` as _load_cpt reads it (characters)
    cpt,         \* what the last call of _load_cpt returned or raised
    palettes,    \* PALETTE_DIR as the last registration call found it
    registry,    \* plt.colormaps: name -> gradient (genmap names only)
    imported,    \* whether `import genmap.colormaps` has succeeded
    reg_before,  \* the registry as the last registration call found it
    reg_result,  \* what the last registration call returned or raised
    reg_calls,   \* number of registration calls made so far
    extent,      \* GenMap.N, S, E, W
    drawn,       \* the line segments ax.plot has drawn, in order
    labels,      \* the texts ax.text has drawn, in order
    sb_call      \* the last add_scalebar call: its arguments and how it ended

vars == <<in_lines, path_file, cpt, palettes, registry, reg_before, imported,
          reg_result, reg_calls, extent, drawn, labels, sb_call>>

----------------------------------------------------------------------------
(* Bounds of the model *)

MaxLines == 3

MaxCalls == 3

MaxBars == 2

----------------------------------------------------------------------------
(* Exact rational arithmetic standing for Python/numpy floats *)

Abs(n) == IF n < 0 THEN -n ELSE n

RECURSIVE Gcd(_, _)
Gcd(a, b) == IF b = 0 THEN a ELSE Gcd(b, a % b)

NaN == <<0, 0>>

\* math.isnan: the infinities <<1, 0>> and <<-1, 0>> are no NaN
IsNaN(q) == q[1] = 0 /\ q[2] = 0

IsInf(q) == q[1] # 0 /\ q[2] = 0

Sign(n) == IF n < 0 THEN -1 ELSE IF n > 0 THEN 1 ELSE 0

\* the rational n/d in lowest terms with a positive denominator; for d = 0
\* the infinity of the sign of n, or NaN when n = 0
Rat(n, d) ==
    IF d = 0 THEN <<Sign(n), 0>>
    ELSE LET s == IF d < 0 THEN -1 ELSE 1
             g == Gcd(Abs(n), Abs(d))
         IN  <<(s * n) \div g, (s * d) \div g>>

FromInt(n) == <<n, 1>>

RNeg(p) == <<-p[1], p[2]>>

\* inf + inf is inf, inf + (-inf) is NaN, NaN + anything is NaN
RAdd(p, q) ==
    IF p[2] = 0 /\ q[2] = 0 THEN (IF p = q THEN p ELSE NaN)
    ELSE Rat(p[1] * q[2] + q[1] * p[2], p[2] * q[2])

RSub(p, q) == RAdd(p, RNeg(q))

RMul(p, q) == Rat(p[1] * q[1], p[2] * q[2])

IsZero(q) == q[1] = 0 /\ q[2] # 0

\* p / q for q # 0: the sign of the divisor goes to the numerator, so that an
\* infinity divided by a negative number changes its sign; x / inf is 0,
\* inf / inf and any division with a NaN are NaN
RDiv(p, q) == Rat(p[1] * q[2] * Sign(q[1]), p[2] * Abs(q[1]))

\* comparisons of floats: any comparison with NaN is false, -inf is below
\* and inf above every finite value
RLeq(p, q) ==
    /\ ~IsNaN(p)
    /\ ~IsNaN(q)
    /\ IF p[2] = 0 /\ q[2] = 0 THEN p[1] <= q[1] ELSE p[1] * q[2] <= q[1] * p[2]

\* numpy's elementwise array / scalar: 0/0 is nan (a RuntimeWarning, no exception)
np_divide(p, q) ==
    IF IsZero(q)
    THEN (IF p[1] = 0 THEN NaN ELSE <<Sign(p[1]), 0>>)
    ELSE RDiv(p, q)

\* a division that yields infinity for a zero divisor, as numpy scalars do
py_truediv_inf(p, q) == [exc |-> "", val |-> np_divide(p, q)]

\* Python's float / float: a zero divisor raises ZeroDivisionError
py_truediv(p, q) ==
    IF IsZero(q) THEN [exc |-> "ZeroDivisionError", val |-> NaN]
    ELSE [exc |-> "", val |-> RDiv(p, q)]

----------------------------------------------------------------------------
(* Characters, str.startswith, the `in` operator on str, str.split, float() *)

DigitChars == <<"0", "1", "2", "3", "4", "5", "6", "7", "8", "9">>

IsDigit(c) == \E i \in 1..10 : DigitChars[i] = c

DigitVal(c) == (CHOOSE i \in 1..10 : DigitChars[i] = c) - 1

\* the characters str.split() treats as separators (str.isspace): space,
\* \t, \n, \v, \f, \r, the separators U+001C to U+001F, U+0085 and U+00A0.
\* The Unicode spaces above U+00FF cannot be written in a string here.
IsSpace(c) ==
    c \in {" ", "\t", "\n", "\r", "\f", "", "", "", "", "",
           "", " "}

\* line.startswith("#")
startswith_hash(line) == Len(line) > 0 /\ line[1] = "#"

\* "HSV" in line: a substring test
contains_HSV(line) ==
    \E i \in 1..Len(line) :
        i + 2 <= Len(line) /\ line[i] = "H" /\ line[i+1] = "S" /\ line[i+2] = "V"

\* line.split(): the maximal runs of non-space characters, in order
RECURSIVE split_from(_, _, _, _)
split_from(line, i, cur, acc) ==
    IF i > Len(line)
    THEN (IF cur = <<>> THEN acc ELSE Append(acc, cur))
    ELSE IF IsSpace(line[i])
         THEN split_from(line, i + 1, <<>>,
                         IF cur = <<>> THEN acc ELSE Append(acc, cur))
         ELSE split_from(line, i + 1, Append(cur, line[i]), acc)

split(line) == split_from(line, 1, <<>>, <<>>)

\* whether float(tok) succeeds, for tokens made of digits, "-" and other
\* characters that are no part of Python's float syntax
float_ok(tok) ==
    LET body == IF Len(tok) > 0 /\ tok[1] = "-" THEN Tail(tok) ELSE tok
    IN  Len(body) > 0 /\ \A i \in 1..Len(body) : IsDigit(body[i])

RECURSIVE digits_value(_, _, _)
digits_value(body, i, acc) ==
    IF i > Len(body) THEN acc
    ELSE digits_value(body, i + 1, 10 * acc + DigitVal(body[i]))

\* float(tok) for a token float_ok accepts
float(tok) ==
    IF tok[1] = "-" THEN FromInt(-digits_value(Tail(tok), 1, 0))
    ELSE FromInt(digits_value(tok, 1, 0))

----------------------------------------------------------------------------
(* colormaps.py: _load_cpt *)

Raised(e) == [kind |-> "raise", exc |-> e, red |-> <<>>, green |-> <<>>, blue |-> <<>>]

Returned(rd, gr, bl) == [kind |-> "ok", exc |-> "", red |-> rd, green |-> gr, blue |-> bl]

NotCalled == [kind |-> "none", exc |-> "", red |-> <<>>, green |-> <<>>, blue |-> <<>>]

\* the file system entry at a path: a missing file, or a file of lines
NoFile == [exists |-> FALSE, lines |-> <<>>]

TextFile(ls) == [exists |-> TRUE, lines |-> ls]

\* the accumulators of the parsing loop before its first line
acc0 == [exc |-> "", x |-> <<>>, r |-> <<>>, g |-> <<>>, b |-> <<>>, color_model |-> "RGB"]

\* the comment branch: a comment with HSV in it sets the colour model
comment_line(acc, line) ==
    IF contains_HSV(line) THEN [acc EXCEPT !.color_model = "HSV"] ELSE acc

\* x0, r0, g0, b0, x1, r1, g1, b1 = map(float, parts[:8]); then the four extends.
\* The unpacking converts the tokens in order and needs exactly eight of
\* parts[:8]: a token float() rejects or fewer than eight tokens is a ValueError.
data_row(acc, parts) ==
    LET first == SubSeq(parts, 1, IF Len(parts) < 8 THEN Len(parts) ELSE 8)
    IN  IF (\E i \in 1..Len(first) : ~float_ok(first[i])) \/ Len(first) < 8
        THEN [acc EXCEPT !.exc = "ValueError"]
        ELSE LET v == [i \in 1..8 |-> float(first[i])]
             IN  [acc EXCEPT !.x = @ \o <<v[1], v[5]>>,
                             !.r = @ \o <<v[2], v[6]>>,
                             !.g = @ \o <<v[3], v[7]>>,
                             !.b = @ \o <<v[4], v[8]>>]

\* one iteration of `for line in lines`
parse_line(acc, line) ==
    IF startswith_hash(line) THEN comment_line(acc, line)
    ELSE LET parts == split(line)
         IN  IF Len(parts) = 0 THEN [acc EXCEPT !.exc = "IndexError"]
             ELSE IF parts[1] \in {<<"B">>, <<"F">>, <<"N">>} THEN acc
             ELSE data_row(acc, parts)

\* the loop: an exception ends it
RECURSIVE parse_lines(_, _, _)
parse_lines(lines, i, acc) ==
    IF i > Len(lines) \/ acc.exc # "" THEN acc
    ELSE parse_lines(lines, i + 1, parse_line(acc, lines[i]))

\* the channels divided by 255 whatever the colour model
scale_channel_always(c, color_model) == [i \in 1..Len(c) |-> np_divide(c[i], FromInt(255))]

\* if color_model == "RGB": r /= 255.0 (g, b alike)
scale_channel(c, color_model) ==
    IF color_model = "RGB"
    THEN [i \in 1..Len(c) |-> np_divide(c[i], FromInt(255))]
    ELSE c

\* the smaller of two floats as numpy's minimum takes it: NaN if either is
np_lesser(a, m) == IF IsNaN(a) \/ IsNaN(m) THEN NaN ELSE IF RLeq(a, m) THEN a ELSE m

np_greater(a, m) == IF IsNaN(a) \/ IsNaN(m) THEN NaN ELSE IF RLeq(m, a) THEN a ELSE m

RECURSIVE np_min(_)
np_min(x) == IF Len(x) = 1 THEN x[1] ELSE np_lesser(x[1], np_min(Tail(x)))

RECURSIVE np_max(_)
np_max(x) == IF Len(x) = 1 THEN x[1] ELSE np_greater(x[1], np_max(Tail(x)))

\* the positions divided by the maximum, the minimum not subtracted
x_norm_by_max(x) == [i \in 1..Len(x) |-> np_divide(x[i], np_max(x))]

\* x_norm = (x - x.min()) / (x.max() - x.min()), for a non-empty x
x_norm(x) ==
    LET lo == np_min(x)
        hi == np_max(x)
    IN  [i \in 1..Len(x) |-> np_divide(RSub(x[i], lo), RSub(hi, lo))]

\* [(x_norm[i], c[i], c[i]) for i in range(len(x))]
triplets(xn, c) == [i \in 1..Len(xn) |-> <<xn[i], c[i], c[i]>>]

_load_cpt(f) ==
    IF ~f.exists THEN Raised("FileNotFoundError")
    ELSE LET acc == parse_lines(f.lines, 1, acc0)
         IN  IF acc.exc # "" THEN Raised(acc.exc)
             ELSE IF Len(acc.x) = 0 THEN Raised("ValueError")  \* x.min() of an empty array
             ELSE LET r  == scale_channel(acc.r, acc.color_model)
                      g  == scale_channel(acc.g, acc.color_model)
                      b  == scale_channel(acc.b, acc.color_model)
                      xn == x_norm(acc.x)
                  IN  Returned(triplets(xn, r), triplets(xn, g), triplets(xn, b))

----------------------------------------------------------------------------
(* Palette tables: the lines a file is written from, and their text *)

RECURSIVE Digits(_)
Digits(n) ==
    IF n < 0 THEN <<"-">> \o Digits(-n)
    ELSE IF n < 10 THEN <<DigitChars[n + 1]>>
    ELSE Digits(n \div 10) \o <<DigitChars[(n % 10) + 1]>>

\* the numbers of a row written in decimal, one space between them
RECURSIVE JoinNums(_)
JoinNums(nums) ==
    IF Len(nums) = 0 THEN <<>>
    ELSE IF Len(nums) = 1 THEN Digits(nums[1])
    ELSE Digits(nums[1]) \o <<" ">> \o JoinNums(Tail(nums))

DataLine(nums) == [kind |-> "data", nums |-> nums, text |-> JoinNums(nums)]

OtherLine(k, text) == [kind |-> k, nums |-> <<>>, text |-> text]

Row1 == DataLine(<<0, 0, 0, 0, 50, 255, 255, 255>>)

Row2 == DataLine(<<50, 255, 255, 255, 100, 0, 0, 0>>)

RowNeg == DataLine(<<-50, 0, 0, 255, 0, 0, 0, 0>>)

RowFlat == DataLine(<<50, 51, 102, 204, 50, 51, 102, 204>>)

RowNine == DataLine(<<0, 0, 0, 0, 50, 255, 255, 255, 7>>)

RowSeven == DataLine(<<0, 0, 0, 0, 50, 255, 255>>)

RowWord == OtherLine("word", <<"0", " ", "0", " ", "x", " ", "0", " ", "5", "0",
                               " ", "1", " ", "1", " ", "1">>)

Comment == OtherLine("comment", <<"#", " ", "c", "p", "t">>)

CommentHSV == OtherLine("hsv", <<"#", " ", "H", "S", "V">>)

CommentPlusHSV == OtherLine("hsv_substring", <<"#", " ", "+", "H", "S", "V">>)

SentinelB == OtherLine("sentinel", <<"B", " ", "0", " ", "0", " ", "0">>)

Blank == OtherLine("blank", <<>>)

LinePool ==
    {Row1, Row2, RowNeg, RowFlat, RowNine, RowSeven, RowWord,
     Comment, CommentHSV, CommentPlusHSV, SentinelB, Blank}

Tables == UNION {[1..n -> LinePool] : n \in 0..MaxLines}

\* the text file written from a table
Written(t) == TextFile([i \in 1..Len(t) |-> t[i].text])

----------------------------------------------------------------------------
(* Defaults of the parts a specification leaves alone *)

NoPalettes == [rainbow |-> NoFile, sst |-> NoFile]

\* no colormap is registered under either genmap name
Unregistered == NotCalled

NoColormaps == [genmap_rainbow |-> Unregistered, genmap_sst |-> Unregistered]

NoExtent == [N |-> 0, S |-> 0, E |-> 0, W |-> 0]

NoCall == [kind |-> "none", length_km |-> 0, location |-> <<<<0, 1>>, <<0, 1>>>>]

LoaderIdle ==
    /\ in_lines = <<>>
    /\ path_file = NoFile
    /\ cpt = NotCalled

RegistryIdle ==
    /\ palettes = NoPalettes
    /\ registry = NoColormaps
    /\ reg_before = NoColormaps
    /\ imported = FALSE
    /\ reg_result = [kind |-> "none", cause |-> ""]
    /\ reg_calls = 0

ScalebarIdle ==
    /\ extent = NoExtent
    /\ drawn = <<>>
    /\ labels = <<>>
    /\ sb_call = NoCall

----------------------------------------------------------------------------
(* SpecLoad: _load_cpt called once on a palette file *)

InitLoad ==
    /\ \/ \E t \in Tables : in_lines = t /\ path_file = Written(t)
       \/ in_lines = <<>> /\ path_file = NoFile
    /\ cpt = NotCalled
    /\ RegistryIdle
    /\ ScalebarIdle

LoadCpt ==
    /\ cpt.kind = "none"
    /\ cpt' = _load_cpt(path_file)
    /\ UNCHANGED <<in_lines, path_file, palettes, registry, reg_before, imported,
                   reg_result, reg_calls, extent, drawn, labels, sb_call>>

NextLoad == LoadCpt

SpecLoad == InitLoad /\ [][NextLoad]_vars

----------------------------------------------------------------------------
(* colormaps.py: _register_custom_colormaps and the import-time call *)

\* LinearSegmentedColormap(name, segmentdata): the constructor stores the
\* segment data and validates nothing
LinearSegmentedColormap(name, segmentdata) == [name |-> name, segmentdata |-> segmentdata]

\* a register call made without force=True
register_unforced(reg, cmap, force) ==
    IF reg[cmap.name] # Unregistered
    THEN [exc |-> "ValueError", reg |-> reg]
    ELSE [exc |-> "", reg |-> [reg EXCEPT ![cmap.name] = cmap.segmentdata]]

\* plt.colormaps.register(cmap, force=force): a name already registered is an
\* error unless force is set; neither genmap name is a builtin colormap
register(reg, cmap, force) ==
    IF reg[cmap.name] # Unregistered /\ ~force
    THEN [exc |-> "ValueError", reg |-> reg]
    ELSE [exc |-> "", reg |-> [reg EXCEPT ![cmap.name] = cmap.segmentdata]]

\* except Exception as e: raise RuntimeError(...): the call ends with the
\* registry as the failing statement left it
RuntimeError(e, reg) == [kind |-> "RuntimeError", cause |-> e, reg |-> reg]

\* the end of the try block, after the second register call
after_second(second) ==
    IF second.exc # "" THEN RuntimeError(second.exc, second.reg)
    ELSE [kind |-> "ok", cause |-> "", reg |-> second.reg]

\* plt.colormaps.register(sst_cm, force=True), after the first register call
after_first(first, sst_cm) ==
    IF first.exc # "" THEN RuntimeError(first.exc, first.reg)
    ELSE after_second(register(first.reg, sst_cm, TRUE))

\* the try block once both palettes are read: an exception of either load
\* leaves the block before any colormap is built or registered
try_block(reg, rainbow_dict, sst_dict) ==
    IF rainbow_dict.kind = "raise" THEN RuntimeError(rainbow_dict.exc, reg)
    ELSE IF sst_dict.kind = "raise" THEN RuntimeError(sst_dict.exc, reg)
    ELSE after_first(register(reg, LinearSegmentedColormap("genmap_rainbow", rainbow_dict), TRUE),
                     LinearSegmentedColormap("genmap_sst", sst_dict))

\* `disk` is PALETTE_DIR, `reg` the registry before the call
_register_custom_colormaps(disk, reg) ==
    try_block(reg, _load_cpt(disk.rainbow), _load_cpt(disk.sst))

\* the palette files PALETTE_DIR may hold when a registration call runs
RainbowTable == <<Comment, Row1, Row2, SentinelB>>

OtherTable == <<RowNeg, Row1>>

HSVTable == <<CommentHSV, Row1>>

FlatTable == <<RowFlat>>

ShortRowTable == <<Row1, RowSeven>>

GoodFiles == {Written(RainbowTable), Written(OtherTable), Written(HSVTable)}

\* a missing file, a degenerate range, a malformed row
BrokenFiles == {NoFile, Written(FlatTable), Written(ShortRowTable)}

PaletteFiles == GoodFiles \cup BrokenFiles

InitReg ==
    /\ LoaderIdle
    /\ RegistryIdle
    /\ ScalebarIdle

\* what a registration call that found `disk` and ended as `out` does to the state
RunRegistration(disk, out) ==
    /\ palettes' = disk
    /\ reg_before' = registry
    /\ registry' = out.reg
    /\ reg_result' = [kind |-> out.kind, cause |-> out.cause]
    /\ reg_calls' = reg_calls + 1

\* `import genmap.colormaps`: the module body ends by calling
\* _register_custom_colormaps(); an exception there fails the import, which a
\* later import statement runs again
Import ==
    /\ ~imported
    /\ reg_calls < MaxCalls
    /\ \E fr \in PaletteFiles, fs \in PaletteFiles :
          RunRegistration([rainbow |-> fr, sst |-> fs],
                          _register_custom_colormaps([rainbow |-> fr, sst |-> fs], registry))
    /\ imported' = (reg_result'.kind = "ok")
    /\ UNCHANGED <<in_lines, path_file, cpt, extent, drawn, labels, sb_call>>

\* a later call of _register_custom_colormaps() by the program
CallRegister ==
    /\ imported
    /\ reg_calls < MaxCalls
    /\ \E fr \in PaletteFiles, fs \in PaletteFiles :
          RunRegistration([rainbow |-> fr, sst |-> fs],
                          _register_custom_colormaps([rainbow |-> fr, sst |-> fs], registry))
    /\ UNCHANGED <<in_lines, path_file, cpt, imported, extent, drawn, labels, sb_call>>

Next == Import \/ CallRegister

Spec == InitReg /\ [][Next]_vars

----------------------------------------------------------------------------
(* core.py: GenMap.add_scalebar *)

\* geopy's distance((lat, W), (lat, W - 1)).km: the geodesic length of one
\* degree of longitude at latitude lat on the WGS-84 ellipsoid, here to the
\* nearest kilometre at the latitudes the extents below have as mid-latitude.
\* It depends on |lat| alone and is 0 at the poles, where both points coincide.
geodesic_km(lat) ==
    LET a == Abs(lat[1])
    IN  CASE lat[2] = 1 /\ a = 0  -> FromInt(111)
          [] lat[2] = 1 /\ a = 15 -> FromInt(108)
          [] lat[2] = 1 /\ a = 30 -> FromInt(96)
          [] lat[2] = 1 /\ a = 45 -> FromInt(79)
          [] lat[2] = 1 /\ a = 60 -> FromInt(56)
          [] lat[2] = 1 /\ a = 75 -> FromInt(29)
          [] lat[2] = 1 /\ a = 90 -> FromInt(0)

\* lon_center = self.W + x_frac * (self.E - self.W)
lon_center(ext, x_frac) == RAdd(FromInt(ext.W), RMul(x_frac, FromInt(ext.E - ext.W)))

\* lat_pos = self.S + y_frac * (self.N - self.S)
lat_pos(ext, y_frac) == RAdd(FromInt(ext.S), RMul(y_frac, FromInt(ext.N - ext.S)))

\* mid_lat = (self.N + self.S) / 2
mid_lat(ext) == Rat(ext.N + ext.S, 2)

\* km_per_degree = distance((mid_lat, self.W), (mid_lat, self.W - 1)).km
km_per_degree(ext) == geodesic_km(mid_lat(ext))

\* a span whose ends are wrapped into [-180, 180]
Wrap180(lon) ==
    IF ~RLeq(FromInt(-180), lon) THEN RAdd(lon, FromInt(360))
    ELSE IF ~RLeq(lon, FromInt(180)) THEN RSub(lon, FromInt(360))
    ELSE lon

scalebar_span_wrapped(center, degree_length) ==
    <<Wrap180(RSub(center, RDiv(degree_length, FromInt(2)))),
      Wrap180(RAdd(center, RDiv(degree_length, FromInt(2))))>>

\* lon_left, lon_right = lon_center -/+ degree_length / 2
scalebar_span(center, degree_length) ==
    <<RSub(center, RDiv(degree_length, FromInt(2))),
      RAdd(center, RDiv(degree_length, FromInt(2)))>>

\* the default text_offset=0.01
text_offset == <<1, 100>>

\* the rest of add_scalebar once degree_length = length_km / km_per_degree is
\* evaluated: an exception of the division leaves the method before ax.plot
scalebar_draw(ext, length_km, location, degree_length) ==
    IF degree_length.exc # ""
    THEN [kind |-> degree_length.exc, plot |-> <<>>, text |-> <<>>]
    ELSE [kind |-> "ok",
          plot |-> <<[x |-> scalebar_span(lon_center(ext, location[1]), degree_length.val),
                      y |-> lat_pos(ext, location[2])]>>,
          text |-> <<[x |-> lon_center(ext, location[1]),
                      y |-> RAdd(lat_pos(ext, location[2]),
                                 RMul(text_offset, FromInt(ext.N - ext.S))),
                      km |-> length_km]>>]

add_scalebar(ext, length_km, location) ==
    scalebar_draw(ext, length_km, location,
                  py_truediv(FromInt(length_km), km_per_degree(ext)))

\* the extents GenMap is constructed with
Extents ==
    {[N |-> 10,  S |-> -10, E |-> 10,   W |-> 0],
     [N |-> 40,  S |-> 20,  E |-> -170, W |-> -180],
     [N |-> 70,  S |-> 50,  E |-> 30,   W |-> 10],
     [N |-> -40, S |-> -50, E |-> -60,  W |-> -70],
     [N |-> 90,  S |-> 90,  E |-> 10,   W |-> 0],
     [N |-> -90, S |-> -90, E |-> 180,  W |-> 170]}

Lengths == {100, 500}

\* (x_frac, y_frac); the first is the default location=(0.5, 0.05)
Locations == {<<<<1, 2>>, <<1, 20>>>>, <<<<0, 1>>, <<0, 1>>>>, <<<<1, 1>>, <<1, 2>>>>}

InitScalebar ==
    /\ LoaderIdle
    /\ RegistryIdle
    /\ extent \in Extents
    /\ drawn = <<>>
    /\ labels = <<>>
    /\ sb_call = NoCall

\* what a call of add_scalebar that ended as `out` does to the state
RunScalebar(length_km, location, out) ==
    /\ drawn' = drawn \o out.plot
    /\ labels' = labels \o out.text
    /\ sb_call' = [kind |-> out.kind, length_km |-> length_km, location |-> location]

AddScalebar ==
    /\ Len(drawn) < MaxBars
    /\ \E length_km \in Lengths, location \in Locations :
          RunScalebar(length_km, location, add_scalebar(extent, length_km, location))
    /\ UNCHANGED <<in_lines, path_file, cpt, palettes, registry, reg_before, imported,
                   reg_result, reg_calls, extent>>

NextScalebar == AddScalebar

SpecScalebar == InitScalebar /\ [][NextScalebar]_vars

----------------------------------------------------------------------------
(* Properties of _load_cpt, stated over the table the file was written from *)

IsRow8(l) == l.kind = "data" /\ Len(l.nums) = 8

IsMalformedRow(l) == (l.kind = "data" /\ Len(l.nums) # 8) \/ l.kind = "word"

IsHSVComment(l) == l.kind \in {"hsv", "hsv_substring"}

\* only comment lines, sentinel rows and rows of eight numbers
WellFormed(t) ==
    \A i \in 1..Len(t) : t[i].kind \in {"comment", "hsv", "hsv_substring", "sentinel"} \/ IsRow8(t[i])

RowsOf(t) == SelectSeq(t, IsRow8)

\* the raw positions of the rows of a well-formed table
PositionSet(t) == UNION {{t[i].nums[1], t[i].nums[5]} : i \in {j \in 1..Len(t) : IsRow8(t[j])}}

SetMin(S) == CHOOSE m \in S : \A n \in S : m <= n

SetMax(S) == CHOOSE m \in S : \A n \in S : n <= m

Loaded == cpt.kind # "none"

\* no row stands twice in the table: its rows are segments [pos0, pos1] of
\* which no two overlap, so that some order of them chains them
DistinctRows(t) ==
    \A i, j \in 1..Len(t) : (IsRow8(t[i]) /\ IsRow8(t[j]) /\ t[i] = t[j]) => i = j

Channels == <<cpt.red, cpt.green, cpt.blue>>

\* C1: for every palette file of comment lines, sentinel rows and 8-field rows
\* with at least two distinct positions, in any row order, the normalized
\* positions of each channel are non-decreasing in emitted order, the first is
\* 0.0 and the last is 1.0.
C1_PositionsSorted ==
    (Loaded /\ WellFormed(in_lines) /\ DistinctRows(in_lines)
            /\ Cardinality(PositionSet(in_lines)) >= 2) =>
        /\ cpt.kind = "ok"
        /\ \A c \in 1..3 :
              LET ch == Channels[c]
              IN  /\ Len(ch) >= 2
                  /\ ch[1][1] = <<0, 1>>
                  /\ ch[Len(ch)][1] = <<1, 1>>
                  /\ \A i \in 1..(Len(ch) - 1) : RLeq(ch[i][1], ch[i+1][1])

\* C2: when all collected positions are equal (min = max), _load_cpt raises,
\* and returns no gradient with NaN or infinite positions.
C2_DegenerateRangeRaises ==
    (Loaded /\ WellFormed(in_lines) /\ Cardinality(PositionSet(in_lines)) = 1) =>
        cpt.kind = "raise"

\* C3: a data row that is not exactly eight numeric tokens (fewer, more, or a
\* non-numeric token) makes _load_cpt raise.
C3_MalformedRowRaises ==
    (Loaded /\ path_file.exists /\ \E i \in 1..Len(in_lines) : IsMalformedRow(in_lines[i])) =>
        cpt.kind = "raise"

\* the expected triplet of a control point at raw position x with raw channel
\* value c, divided by 255 or not
Triplet(x, c, lo, hi, by255) ==
    <<Rat(x - lo, hi - lo), Rat(c, IF by255 THEN 255 ELSE 1), Rat(c, IF by255 THEN 255 ELSE 1)>>

\* the gradient expected of a well-formed table with two distinct positions:
\* both endpoints of every row in file order, left endpoint first
Expected(t, by255) ==
    LET rows == RowsOf(t)
        lo   == SetMin(PositionSet(t))
        hi   == SetMax(PositionSet(t))
        chan(o) == [n \in 1..(2 * Len(rows)) |->
                      LET row == rows[(n + 1) \div 2].nums
                          at  == IF n % 2 = 1 THEN 0 ELSE 4
                      IN  Triplet(row[at + 1], row[at + 1 + o], lo, hi, by255)]
    IN  Returned(chan(1), chan(2), chan(3))

\* C6: a well-formed RGB file with k rows yields, per channel, exactly 2k
\* triplets in file order, ((x - min)/(max - min), c/255, c/255).
C6_TripletsInFileOrder ==
    (Loaded /\ WellFormed(in_lines) /\ Cardinality(PositionSet(in_lines)) >= 2
            /\ ~\E i \in 1..Len(in_lines) : IsHSVComment(in_lines[i])) =>
        /\ cpt = Expected(in_lines, TRUE)
        /\ Len(cpt.red) = 2 * Len(RowsOf(in_lines))

\* the two-segment example: positions [0.0, 0.5, 0.5, 1.0], values [0, 1, 1, 0]
C6_Witness ==
    /\ in_lines = <<Row1, Row2>>
    /\ cpt.kind = "ok"
    /\ \A c \in 1..3 :
          Channels[c] = << <<<<0, 1>>, <<0, 1>>, <<0, 1>>>>, <<<<1, 2>>, <<1, 1>>, <<1, 1>>>>,
                           <<<<1, 2>>, <<1, 1>>, <<1, 1>>>>, <<<<1, 1>>, <<0, 1>>, <<0, 1>>>> >>

\* C7 as stated: the HSV directive (a comment with the token HSV) switches the
\* model for the points read after it; points read before it, under RGB, are
\* divided by 255.
C7_ModelFromDirectiveOn ==
    (Loaded /\ WellFormed(in_lines) /\ Cardinality(PositionSet(in_lines)) >= 2) =>
        /\ cpt.kind = "ok"
        /\ Len(cpt.red) = 2 * Len(RowsOf(in_lines))
        /\ \A i \in 1..Len(in_lines) :
              IsRow8(in_lines[i]) =>
                 LET k     == Len(RowsOf(SubSeq(in_lines, 1, i)))
                     after == \E j \in 1..(i - 1) : in_lines[j].kind = "hsv"
                     want  == Expected(in_lines, ~after)
                 IN  /\ cpt.red[2 * k - 1] = want.red[2 * k - 1]
                     /\ cpt.red[2 * k] = want.red[2 * k]

\* C7 amended: the colour model is one per file: HSV when any comment line
\* contains the substring HSV, wherever it stands, and then the channel values
\* of all control points pass through unchanged; RGB otherwise, and then all
\* are divided by 255.
C7_ModelIsPerFile ==
    (Loaded /\ WellFormed(in_lines) /\ Cardinality(PositionSet(in_lines)) >= 2) =>
        cpt = Expected(in_lines, ~\E i \in 1..Len(in_lines) : IsHSVComment(in_lines[i]))

\* a row read before the directive comes out undivided
C7_Witness ==
    /\ Len(in_lines) >= 2
    /\ in_lines[1] = Row1
    /\ IsHSVComment(in_lines[2])
    /\ cpt.kind = "ok"
    /\ cpt.red[2] = <<<<1, 1>>, <<255, 1>>, <<255, 1>>>>

InsertAt(t, pos, l) == SubSeq(t, 1, pos) \o <<l>> \o SubSeq(t, pos + 1, Len(t))

\* C10: inserting a comment line, a sentinel row or an empty line at any
\* position of a file that loads neither makes the load fail nor changes the
\* control-point lists it yields.
C10_NonDataLinesIgnored ==
    cpt.kind = "ok" =>
        \A pos \in 0..Len(in_lines) : \A l \in {Comment, SentinelB, Blank} :
            _load_cpt(Written(InsertAt(in_lines, pos, l))) = cpt

----------------------------------------------------------------------------
(* Properties of registration *)

Registered == reg_calls > 0

LoadsOk(disk) == _load_cpt(disk.rainbow).kind = "ok" /\ _load_cpt(disk.sst).kind = "ok"

\* C4: registration is idempotent with force-overwrite semantics: no call
\* raises because genmap_rainbow or genmap_sst is registered already (a call
\* raises only when a load raised), and after a call that returns the registry
\* maps both names to the gradients that call built.
C4_ForceOverwrite ==
    Registered =>
        /\ LoadsOk(palettes) => reg_result.kind = "ok"
        /\ reg_result.kind = "ok" =>
              /\ registry.genmap_rainbow = _load_cpt(palettes.rainbow)
              /\ registry.genmap_sst = _load_cpt(palettes.sst)

\* a second call has replaced a registered gradient by a different one
C4_Witness ==
    /\ reg_calls >= 2
    /\ reg_result.kind = "ok"
    /\ reg_before.genmap_rainbow # Unregistered
    /\ reg_before.genmap_sst # Unregistered
    /\ registry.genmap_rainbow # reg_before.genmap_rainbow
    /\ registry.genmap_sst # reg_before.genmap_sst

\* C5: when either palette is a missing file, has a malformed row or a
\* degenerate range, the call raises a RuntimeError and the registry is as it
\* was before the call.
C5_FailurePropagates ==
    (Registered /\ (palettes.rainbow \in BrokenFiles \/ palettes.sst \in BrokenFiles)) =>
        /\ reg_result.kind = "RuntimeError"
        /\ registry = reg_before

----------------------------------------------------------------------------
(* Properties of add_scalebar *)

AtPole == mid_lat(extent) \in {<<90, 1>>, <<-90, 1>>}

Finite(q) == q[2] # 0

\* C8: at mid_lat = +90 or -90, where one degree of longitude is 0 km long,
\* add_scalebar raises before it draws anything, and no span that is infinite
\* or NaN is ever drawn.
C8_PoleRaises ==
    /\ (sb_call.kind # "none" /\ AtPole) =>
          /\ sb_call.kind = "ZeroDivisionError"
          /\ drawn = <<>>
          /\ labels = <<>>
    /\ \A i \in 1..Len(drawn) : Finite(drawn[i].x[1]) /\ Finite(drawn[i].x[2])

C8_Witness ==
    /\ AtPole
    /\ sb_call.kind = "ZeroDivisionError"
    /\ drawn = <<>>

LastBar == drawn[Len(drawn)]

\* C9: the span is symmetric about lon_center = W + x_frac*(E - W), its width
\* is length_km / km_per_degree, and it is neither clipped nor wrapped.
C9_SpanSymmetric ==
    sb_call.kind = "ok" =>
        /\ RAdd(LastBar.x[1], LastBar.x[2])
             = RMul(FromInt(2), RAdd(FromInt(extent.W),
                                     RMul(sb_call.location[1], FromInt(extent.E - extent.W))))
        /\ RSub(LastBar.x[2], LastBar.x[1])
             = RDiv(FromInt(sb_call.length_km), geodesic_km(Rat(extent.N + extent.S, 2)))

\* a bar whose left end lies west of the extent and of the -180 meridian
C9_Witness ==
    /\ sb_call.kind = "ok"
    /\ extent.W = -180
    /\ ~RLeq(FromInt(-180), LastBar.x[1])
    /\ RLeq(FromInt(-180), LastBar.x[2])

====
